---- MODULE Spec2Model ----
(***************************************************************************)
(* Model of nixvm: the driver (src/main.rs) and the expression translator  *)
(* with its Compiler session (src/lib.rs).                                 *)
(*                                                                         *)
(* A syntax tree is a record tagged by k (the rnix Expr variant).  The     *)
(* translator is the recursive operator compile_expression; it threads a   *)
(* session record (the Compiler's fields, the JIT module's tables and the  *)
(* FunctionBuilders' tables) and appends to `trace` one event per call it  *)
(* makes, in the order the code makes them.  Generated code is one basic   *)
(* block per function, so every IR value is carried with the number it has *)
(* when the block runs.                                                    *)
(***************************************************************************)
EXTENDS Integers, Sequences, FiniteSets, TLC

(* ---------------------------- bounds ---------------------------------- *)
MaxInt == 2
MaxBindings == 2
MaxParts == 3
MaxErrors == 1

(* ---------------------------- syntax trees ---------------------------- *)
Names == {"x", "y"}

ArithOps == {"Add", "Sub", "Mul", "Div"}
CmpOps == {"Less", "LessOrEq", "More", "MoreOrEq", "Equal", "NotEqual"}
LogicOps == {"And", "Or"}
SupportedOps == ArithOps \cup CmpOps \cup LogicOps
OtherOps == {"Concat", "Update", "Implication"}

IntLit(n) == [k |-> "Literal", kind |-> "Integer", v |-> n]
FloatLit == [k |-> "Literal", kind |-> "Float", v |-> 0]
UriLit == [k |-> "Literal", kind |-> "Uri", v |-> 0]
Ident(n) == [k |-> "Ident", name |-> n]
BinOp(o, l, r) == [k |-> "BinOp", op |-> o, lhs |-> l, rhs |-> r]
Lambda(b) == [k |-> "Lambda", param |-> "p", body |-> b]
Binding(key, e) == [key |-> key, value |-> e]
LetIn(bs, b) == [k |-> "LetIn", binds |-> bs, body |-> b]
Text(s) == [t |-> "Literal", s |-> s]
Interpolation(e) == [t |-> "Interpolation", expr |-> e]
Str(ps) == [k |-> "Str", parts |-> ps]
ListExpr == [k |-> "List"]

SeqsUpTo(S, n) == UNION {[1..m -> S] : m \in 1..n}

\* the operators the inputs use: one of each family that the translator
\* treats alike, the trapping one, and one it does not know
InputOps == {"Add", "Div", "Less", "And", "Concat"}

Leaves ==
    {IntLit(n) : n \in 1..MaxInt} \cup {Ident(n) : n \in Names}
        \cup {Str(<<Text(<<"a">>)>>), ListExpr, UriLit}

Build(Ops, Sub, Vals, Parts) ==
    {BinOp(o, l, r) : o \in Ops, l \in Sub, r \in Sub}
        \cup {Lambda(b) : b \in Sub}
        \cup {LetIn(bs, b) :
                bs \in SeqsUpTo({Binding(n, e) : n \in Names, e \in Vals}, MaxBindings),
                b \in Sub}
        \cup {Str(ps) : ps \in SeqsUpTo(Parts, MaxParts)}

\* the values bound by the lets over leaves, and the interpolated leaves
LeafVals == Leaves \ {ListExpr, UriLit}
LeafParts == {IntLit(1), Ident("x"), Str(<<Text(<<"a">>)>>), ListExpr}

Level1 ==
    Build(SupportedOps \cup OtherOps, Leaves, LeafVals,
          {Text(<<"a">>), Text(<<"b">>)} \cup {Interpolation(e) : e \in LeafParts})

\* sub-trees of the depth-two inputs
Core ==
    {IntLit(1), Ident("x"), Str(<<Text(<<"a">>)>>),
     Lambda(IntLit(1)), Lambda(Ident("x")),
     BinOp("Add", IntLit(1), IntLit(1)),
     LetIn(<<Binding("x", IntLit(2))>>, Ident("x")),
     Str(<<Text(<<"a">>), Interpolation(IntLit(2)), Text(<<"b">>)>>)}

CoreVals ==
    {IntLit(2), FloatLit, Lambda(IntLit(1)), Str(<<Text(<<"a">>)>>),
     Str(<<Text(<<"b">>)>>)}

CoreParts ==
    {Ident("x"), Lambda(IntLit(1)), BinOp("Add", IntLit(1), IntLit(1)),
     LetIn(<<Binding("x", IntLit(2))>>, Ident("x"))}

Level2 ==
    Build(InputOps, Core, CoreVals,
          {Text(<<"a">>)} \cup {Interpolation(e) : e \in CoreParts})

Exprs == Leaves \cup {FloatLit} \cup Level1 \cup Level2

\* children of a node, in the order the translator may visit them
NumChildren(e) ==
    CASE e.k = "BinOp" -> 2
      [] e.k = "Lambda" -> 1
      [] e.k = "LetIn" -> Len(e.binds) + 1
      [] e.k = "Str" -> Len(e.parts)
      [] OTHER -> 0

HasChild(e, i) ==
    /\ i \in 1..NumChildren(e)
    /\ e.k = "Str" => e.parts[i].t = "Interpolation"

Child(e, i) ==
    CASE e.k = "BinOp" -> IF i = 1 THEN e.lhs ELSE e.rhs
      [] e.k = "Lambda" -> e.body
      [] e.k = "LetIn" -> IF i <= Len(e.binds) THEN e.binds[i].value ELSE e.body
      [] e.k = "Str" -> e.parts[i].expr

RECURSIVE Paths(_)
Paths(e) ==
    {<<>>} \cup UNION {{<<i>> \o q : q \in Paths(Child(e, i))} :
                        i \in {j \in 1..NumChildren(e) : HasChild(e, j)}}

RECURSIVE Node(_, _)
Node(e, p) == IF p = <<>> THEN e ELSE Node(Child(e, Head(p)), Tail(p))

(* ---------------------------- values and results ---------------------- *)
\* an IR value: its type and the number it holds when the block runs (for a
\* symbol_value, the id of the data object it addresses)
I64(n) == [ty |-> "i64", n |-> n]
Ptr(id) == [ty |-> "ptr", n |-> id]
F64Value == [ty |-> "f64", n |-> 0]
NoVal == [ty |-> "", n |-> 0]

\* Result<Option<Value>>: Ok(Some v), Ok(None), Err(msg), or a panic
Some(v) == [tag |-> "val", v |-> v, msg |-> ""]
None == [tag |-> "none", v |-> NoVal, msg |-> ""]
Err(msg) == [tag |-> "err", v |-> NoVal, msg |-> msg]
Panic(msg) == [tag |-> "panic", v |-> NoVal, msg |-> msg]
NoRes == [tag |-> "", v |-> NoVal, msg |-> ""]
Failed(res) == res.tag \in {"err", "panic"}

\* the error messages of the code, under the names the specification uses
UnboundIdentifier == "failed to get variable"
UnsupportedOperator == "unknown operator"
UnsupportedConstruct == "unknown expression"
UnknownLiteral == "unknown literal type"
MissingValue == "failed to compile let in value"
EmptyLambdaBody == "failed to compile lambda body"
NoReturnValue == "failed to get return value"
DataDefinitionError == "failed to define data"

\* what FunctionBuilder does with a Variable it was never told about, or
\* with a value of another type than the Variable's
Misuse == {"panic", "proceed"}

Event(ev, p, f, a, s, res) ==
    [ev |-> ev, path |-> p, f |-> f, a |-> a, s |-> s, res |-> res]

Log(st, ev) == [st EXCEPT !.trace = Append(@, ev)]
SetRes(st, res) == [st EXCEPT !.res = res]

RECURSIVE BitAnd(_, _)
BitAnd(a, b) ==
    IF a = 0 \/ b = 0 THEN 0
    ELSE 2 * BitAnd(a \div 2, b \div 2) + (IF a % 2 = 1 /\ b % 2 = 1 THEN 1 ELSE 0)

RECURSIVE BitOr(_, _)
BitOr(a, b) ==
    IF a = 0 THEN b
    ELSE IF b = 0 THEN a
    ELSE 2 * BitOr(a \div 2, b \div 2) + (IF a % 2 = 1 \/ b % 2 = 1 THEN 1 ELSE 0)

Bool(b) == IF b THEN 1 ELSE 0

\* the number the emitted instruction computes (udiv by zero traps: 0 here,
\* and the function is marked trapping)
ApplyOp(op, l, r) ==
    CASE op = "Add" -> l + r
      [] op = "Sub" -> l - r
      [] op = "Mul" -> l * r
      [] op = "Div" -> IF r = 0 THEN 0 ELSE l \div r
      [] op = "Less" -> Bool(l < r)
      [] op = "LessOrEq" -> Bool(l <= r)
      [] op = "More" -> Bool(l > r)
      [] op = "MoreOrEq" -> Bool(l >= r)
      [] op = "Equal" -> Bool(l = r)
      [] op = "NotEqual" -> Bool(l # r)
      [] op = "And" -> BitAnd(l, r)
      [] op = "Or" -> BitOr(l, r)

(* ---------------------------- the session ----------------------------- *)
\* the top-level function "main"; lambda functions are numbered from 1
MainFn == 0

\* Compiler::new: the Compiler's fields, the JITModule's tables, and the
\* tables of the FunctionBuilders
NewCompiler ==
    [variables |-> {},          \* HashMap<String, Variable>
     variable_index |-> 0,
     declared |-> {},           \* builder.declare_var: <<function, variable>>
     vals |-> {},               \* builder.def_var: [f, var, v]
     nfuncs |-> 0,              \* FunctionBuilders created for lambdas
     built |-> {},              \* lambda functions whose builder was finalized
     trapping |-> {},           \* functions holding a udiv by zero
     data_decls |-> {},         \* module.declare_data: [name, id]
     data_defs |-> {},          \* module.define_data: [id, bytes]
     functions |-> {},          \* module.declare_function
     defined |-> {},            \* module.define_function
     finalized |-> {},          \* functions made executable
     finalize_calls |-> 0,      \* module.finalize_definitions
     trace |-> <<>>,
     res |-> NoRes]

Lookup(st, name) == {b \in st.variables : b.name = name}

\* declare_variable: the Variable it returns is always the one numbered by
\* the counter; only a new name is inserted, registered and counted
declare_variable(st, f, name, p) ==
    LET var == st.variable_index
        s1 == IF Lookup(st, name) = {}
              THEN Log([st EXCEPT !.variables = @ \cup {[name |-> name, slot |-> var]},
                                  !.declared = @ \cup {<<f, var>>},
                                  !.variable_index = @ + 1],
                       Event("declare_var", p, f, var, name, NoRes))
              ELSE st
    IN  [st |-> Log(s1, Event("declare_variable", p, f, var, name, NoRes)),
         var |-> var]

\* builder.def_var; the variables are declared with the pointer-sized
\* integer type, which a float value does not have
def_var(st, f, var, v, m, p) ==
    LET s1 == Log(st, Event("def_var", p, f, var, "", NoRes))
        s2 == [s1 EXCEPT !.vals = {d \in @ : ~(d.f = f /\ d.var = var)}
                                     \cup {[f |-> f, var |-> var, v |-> v]}]
    IN  IF <<f, var>> \in st.declared /\ v.ty # "f64" THEN s2
        ELSE IF m = "panic" THEN SetRes(s1, Panic("def_var"))
        ELSE s2

\* builder.use_var
use_var(st, f, var, m, p) ==
    LET s1 == Log(st, Event("use_var", p, f, var, "", NoRes))
        ds == {d \in st.vals : d.f = f /\ d.var = var}
    IN  IF <<f, var>> \in st.declared /\ ds # {}
        THEN SetRes(s1, Some((CHOOSE d \in ds : TRUE).v))
        ELSE IF m = "panic" THEN SetRes(s1, Panic("use_var"))
        ELSE SetRes(s1, Some(I64(0)))

\* module.declare_data: one id per name
declare_data(st, name) ==
    LET known == {d \in st.data_decls : d.name = name}
        id == IF known = {} THEN Cardinality(st.data_decls)
              ELSE (CHOOSE d \in known : TRUE).id
    IN  [st |-> [st EXCEPT !.data_decls = @ \cup {[name |-> name, id |-> id]}],
         id |-> id]

\* module.define_data: an id is defined once
define_data(st, id, bytes) ==
    IF \E d \in st.data_defs : d.id = id
    THEN SetRes(st, Err(DataDefinitionError))
    ELSE SetRes([st EXCEPT !.data_defs = @ \cup {[id |-> id, bytes |-> bytes]}],
                Some(Ptr(id)))

(* ---------------------------- the translator -------------------------- *)
RECURSIVE compile_expression(_, _, _, _, _)
RECURSIVE LetBindings(_, _, _, _, _, _)
RECURSIVE StrParts(_, _, _, _, _, _, _)

\* compile_literal
compile_literal(e, p, f, st) ==
    CASE e.kind = "Integer" ->
            SetRes(Log(st, Event("ins", p, f, e.v, "iconst", NoRes)), Some(I64(e.v)))
      [] e.kind = "Float" ->
            SetRes(Log(st, Event("ins", p, f, 0, "f64const", NoRes)), Some(F64Value))
      [] OTHER -> SetRes(st, Err(UnknownLiteral))

\* compile_bin_op returning at once when the left operand has no value
compile_bin_op_short_circuit(e, p, f, m, st) ==
    LET left == compile_expression(e.lhs, Append(p, 1), f, m, st)
    IN  IF Failed(left.res) THEN left
        ELSE IF left.res.tag = "none" THEN SetRes(left, None)
        ELSE
        LET right == compile_expression(e.rhs, Append(p, 2), f, m, left)
        IN  IF Failed(right.res) THEN right
            ELSE IF right.res.tag = "none" THEN SetRes(right, None)
            ELSE IF e.op \in SupportedOps
            THEN LET s1 == Log(right, Event("ins", p, f, 0, e.op, NoRes))
                     s2 == IF e.op = "Div" /\ right.res.v.n = 0
                           THEN [s1 EXCEPT !.trapping = @ \cup {f}]
                           ELSE s1
                 IN  SetRes(s2, Some(I64(ApplyOp(e.op, left.res.v.n, right.res.v.n))))
            ELSE SetRes(right, Err(UnsupportedOperator))

\* compile_bin_op whose match gives no value for an operator it does not know
compile_bin_op_lenient(e, p, f, m, st) ==
    LET left == compile_expression(e.lhs, Append(p, 1), f, m, st)
    IN  IF Failed(left.res) THEN left
        ELSE
        LET right == compile_expression(e.rhs, Append(p, 2), f, m, left)
        IN  IF Failed(right.res) THEN right
            ELSE IF left.res.tag = "none" \/ right.res.tag = "none"
            THEN SetRes(right, None)
            ELSE IF e.op \in SupportedOps
            THEN LET s1 == Log(right, Event("ins", p, f, 0, e.op, NoRes))
                     s2 == IF e.op = "Div" /\ right.res.v.n = 0
                           THEN [s1 EXCEPT !.trapping = @ \cup {f}]
                           ELSE s1
                 IN  SetRes(s2, Some(I64(ApplyOp(e.op, left.res.v.n, right.res.v.n))))
            ELSE SetRes(right, None)

\* the compile_bin_op closure
compile_bin_op(e, p, f, m, st) ==
    LET left == compile_expression(e.lhs, Append(p, 1), f, m, st)
    IN  IF Failed(left.res) THEN left
        ELSE
        LET right == compile_expression(e.rhs, Append(p, 2), f, m, left)
        IN  IF Failed(right.res) THEN right
            ELSE IF left.res.tag = "none" \/ right.res.tag = "none"
            THEN SetRes(right, None)
            ELSE IF e.op \in SupportedOps
            THEN LET l == left.res.v.n
                     r == right.res.v.n
                     s1 == Log(right, Event("ins", p, f, 0, e.op, NoRes))
                     s2 == IF e.op = "Div" /\ r = 0
                           THEN [s1 EXCEPT !.trapping = @ \cup {f}]
                           ELSE s1
                 IN  SetRes(s2, Some(I64(ApplyOp(e.op, l, r))))
            ELSE SetRes(right, Err(UnsupportedOperator))

\* Expr::Lambda: the function is built by a FunctionBuilder of its own and
\* dropped; the module is not told of it
CompileLambda(e, p, f, m, st) ==
    LET g == st.nfuncs + 1
        s0 == Log([st EXCEPT !.nfuncs = g], Event("new_function", p, g, 0, "", NoRes))
        body_value == compile_expression(e.body, Append(p, 1), g, m, s0)
    IN  IF Failed(body_value.res) THEN body_value
        ELSE IF body_value.res.tag = "none" THEN SetRes(body_value, Err(EmptyLambdaBody))
        ELSE SetRes(Log([body_value EXCEPT !.built = @ \cup {g}],
                        Event("finalize_builder", p, g, 0, "", NoRes)),
                    None)

\* Expr::Ident
CompileIdent(e, p, f, m, st) ==
    LET found == Lookup(st, e.name)
    IN  IF found = {} THEN SetRes(st, Err(UnboundIdentifier))
        ELSE use_var(st, f, (CHOOSE b \in found : TRUE).slot, m, p)

\* the let loop declaring a binding's name before translating its value
LetBindings_declare_first(e, p, f, m, st, i) ==
    IF i > Len(e.binds) THEN st
    ELSE
    LET d == declare_variable(st, f, e.binds[i].key, p)
        value == compile_expression(e.binds[i].value, Append(p, i), f, m, d.st)
    IN  IF Failed(value.res) THEN value
        ELSE IF value.res.tag = "none" THEN SetRes(value, Err(MissingValue))
        ELSE
        LET s == def_var(value, f, d.var, value.res.v, m, p)
        IN  IF Failed(s.res) THEN s
            ELSE LetBindings(e, p, f, m, s, i + 1)

\* Expr::LetIn, the loop over the bindings from the i-th on
LetBindings(e, p, f, m, st, i) ==
    IF i > Len(e.binds) THEN st
    ELSE
    LET value == compile_expression(e.binds[i].value, Append(p, i), f, m, st)
    IN  IF Failed(value.res) THEN value
        ELSE IF value.res.tag = "none" THEN SetRes(value, Err(MissingValue))
        ELSE
        LET d == declare_variable(value, f, e.binds[i].key, p)
            s == def_var(d.st, f, d.var, value.res.v, m, p)
        IN  IF Failed(s.res) THEN s
            ELSE LetBindings(e, p, f, m, s, i + 1)

\* Expr::LetIn
CompileLetIn(e, p, f, m, st) ==
    LET s == LetBindings(e, p, f, m, SetRes(st, NoRes), 1)
    IN  IF Failed(s.res) THEN s
        ELSE compile_expression(e.body, Append(p, Len(e.binds) + 1), f, m, s)

\* the commit defining the object before the bytes are handed over
EmitData_empty(raw_string, p, f, st) ==
    LET d == declare_data(st, "string")
        s1 == Log(d.st, Event("declare_data", p, f, d.id, "string", NoRes))
        s2 == define_data(s1, d.id, <<>>)
    IN  IF Failed(s2.res) THEN s2
        ELSE Log([s2 EXCEPT !.finalize_calls = @ + 1],
                 Event("define_data", p, f, d.id, "string", NoRes))

\* Expr::Str, the commit of the accumulated bytes
EmitData(raw_string, p, f, st) ==
    LET d == declare_data(st, "string")
        s1 == Log(d.st, Event("declare_data", p, f, d.id, "string", NoRes))
        s2 == define_data(s1, d.id, raw_string)
    IN  IF Failed(s2.res) THEN s2
        ELSE Log([s2 EXCEPT !.finalize_calls = @ + 1],
                 Event("define_data", p, f, d.id, "string", NoRes))

\* the loop over the parts going on after an interpolation
StrParts_continue(e, p, f, m, st, i, raw_string) ==
    IF i > Len(e.parts) THEN EmitData(raw_string, p, f, st)
    ELSE IF e.parts[i].t = "Literal"
    THEN StrParts(e, p, f, m, st, i + 1, raw_string \o e.parts[i].s)
    ELSE LET v == compile_expression(e.parts[i].expr, Append(p, i), f, m, st)
         IN  IF Failed(v.res) THEN v
             ELSE StrParts(e, p, f, m, v, i + 1, raw_string)

\* Expr::Str, the loop over the parts from the i-th on
StrParts(e, p, f, m, st, i, raw_string) ==
    IF i > Len(e.parts) THEN EmitData(raw_string, p, f, st)
    ELSE IF e.parts[i].t = "Literal"
    THEN StrParts(e, p, f, m, st, i + 1, raw_string \o e.parts[i].s)
    ELSE compile_expression(e.parts[i].expr, Append(p, i), f, m, st)

\* Expr::Str
CompileStr(e, p, f, m, st) == StrParts(e, p, f, m, st, 1, <<>>)

compile_expression(e, p, f, m, st) ==
    LET s0 == Log(st, Event("enter", p, f, 0, e.k, NoRes))
        s1 == CASE e.k = "Lambda" -> CompileLambda(e, p, f, m, s0)
                [] e.k = "Ident" -> CompileIdent(e, p, f, m, s0)
                [] e.k = "LetIn" -> CompileLetIn(e, p, f, m, s0)
                [] e.k = "BinOp" -> compile_bin_op(e, p, f, m, s0)
                [] e.k = "Literal" -> compile_literal(e, p, f, s0)
                [] e.k = "Str" -> CompileStr(e, p, f, m, s0)
                [] OTHER -> SetRes(s0, Err(UnsupportedConstruct))
    IN  Log(s1, Event("exit", p, f, 0, e.k, s1.res))

(* ---------------------------- the driver ------------------------------ *)
VARIABLES pc, input, compiler, value, stdout, stderr, invoked, status

vars == <<pc, input, compiler, value, stdout, stderr, invoked, status>>

\* the texts the driver is run on: a tree without syntax errors, or a text
\* with syntax errors (whose tree the driver never reads)
Inputs ==
    {[errors |-> 0, expr |-> e] : e \in Exprs}
        \cup {[errors |-> n, expr |-> e] : n \in 1..MaxErrors, e \in Leaves}

Init ==
    /\ pc = "parse"
    /\ input \in Inputs
    /\ compiler = <<>>
    /\ value = NoRes
    /\ stdout = <<>>
    /\ stderr = 0
    /\ invoked = 0
    /\ status = "running"

\* main printing the errors and going on
main_parse_no_return ==
    /\ pc = "parse"
    /\ stderr' = input.errors
    /\ pc' = "new"
    /\ UNCHANGED <<input, compiler, value, stdout, invoked, status>>

\* main: Root::parse, the errors printed, and the return on any error
main_parse ==
    /\ pc = "parse"
    /\ stderr' = input.errors
    /\ IF input.errors # 0
       THEN pc' = "exit" /\ status' = "failure"
       ELSE pc' = "new" /\ UNCHANGED status
    /\ UNCHANGED <<input, compiler, value, stdout, invoked>>

\* main: the tree's expression is printed and the session created
main_new ==
    /\ pc = "new"
    /\ stdout' = Append(stdout, "node")
    /\ compiler' = <<NewCompiler>>
    /\ pc' = "translate"
    /\ UNCHANGED <<input, value, stderr, invoked, status>>

\* Compiler::compile: the top-level builder is opened and the tree translated
compile_translate ==
    /\ pc = "translate"
    /\ \E m \in Misuse :
          LET s == compile_expression(input.expr, <<>>, MainFn, m, compiler[1])
          IN  /\ compiler' = <<s>>
              /\ value' = s.res
              /\ IF Failed(s.res)
                 THEN pc' = "exit" /\ status' = "failure"
                 ELSE pc' = "close" /\ UNCHANGED status
    /\ UNCHANGED <<input, stdout, stderr, invoked>>

\* compile declaring "main" whatever the translator returned
compile_close_unchecked ==
    /\ pc = "close"
    /\ compiler' = <<[compiler[1] EXCEPT !.functions = @ \cup {MainFn},
                                         !.defined = @ \cup {MainFn},
                                         !.finalized = @ \cup {MainFn},
                                         !.finalize_calls = @ + 1]>>
    /\ pc' = "invoke"
    /\ UNCHANGED <<input, value, status, stdout, stderr, invoked>>

\* Compiler::compile: the value is taken as the return value and "main" is
\* declared, defined and finalized, unless the backend returns an error
compile_close ==
    /\ pc = "close"
    /\ IF value.tag = "val"
       THEN \/ /\ compiler' = <<[compiler[1] EXCEPT !.functions = @ \cup {MainFn},
                                                     !.defined = @ \cup {MainFn},
                                                     !.finalized = @ \cup {MainFn},
                                                     !.finalize_calls = @ + 1]>>
               /\ pc' = "invoke"
               /\ UNCHANGED <<value, status>>
            \* define_function refuses the function (the IR does not verify)
            \/ /\ compiler' = <<[compiler[1] EXCEPT !.functions = @ \cup {MainFn}]>>
               /\ pc' = "exit"
               /\ status' = "failure"
               /\ UNCHANGED value
       ELSE /\ value' = Err(NoReturnValue)
            /\ pc' = "exit"
            /\ status' = "failure"
            /\ UNCHANGED compiler
    /\ UNCHANGED <<input, stdout, stderr, invoked>>

\* Compiler::compile: the finalized "main" is called and its result printed
compile_invoke ==
    /\ pc = "invoke"
    /\ invoked' = invoked + 1
    /\ IF MainFn \in compiler[1].trapping
       THEN /\ status' = "trap"
            /\ UNCHANGED stdout
       ELSE /\ stdout' = Append(stdout, value.v)
            /\ status' = "success"
    /\ pc' = "exit"
    /\ UNCHANGED <<input, compiler, value, stderr>>

Next == main_parse \/ main_new \/ compile_translate \/ compile_close \/ compile_invoke

Spec == Init /\ [][Next]_vars

TypeOK == pc \in {"parse", "new", "translate", "close", "invoke", "exit"}

(* ---------------------------- reading the trace ----------------------- *)
Session == IF compiler = <<>> THEN NewCompiler ELSE compiler[1]
T == Session.trace
Tree == input.expr

At(ev, p) == {i \in DOMAIN T : T[i].ev = ev /\ T[i].path = p}
Entered(p) == At("enter", p) # {}
Exited(p) == At("exit", p) # {}
EnterIdx(p) == CHOOSE i \in At("enter", p) : TRUE
ExitIdx(p) == CHOOSE i \in At("exit", p) : TRUE
ResOf(p) == T[ExitIdx(p)].res
\* the node at p was translated and returned Ok (a value or none)
Returned(p) == Exited(p) /\ ~Failed(ResOf(p))

NodesOf(kind) == {p \in Paths(Tree) : Node(Tree, p).k = kind}

InterpolationParts(e) == {i \in 1..Len(e.parts) : e.parts[i].t = "Interpolation"}
FirstInterpolation(e) ==
    CHOOSE i \in InterpolationParts(e) : \A j \in InterpolationParts(e) : i <= j

RECURSIVE TextOf(_, _)
TextOf(e, i) == IF i > Len(e.parts) THEN <<>> ELSE e.parts[i].s \o TextOf(e, i + 1)

(* ---------------------------- C1 --------------------------------------- *)
\* C1: declare(name) returns the slot the Binding Environment maps the name
\* to, also when the name was already known, so the store that follows
\* writes the storage a later lookup(name) loads.
C1_DeclareReturnsBoundSlot ==
    \A i \in DOMAIN T :
        T[i].ev = "declare_variable" =>
            [name |-> T[i].s, slot |-> T[i].a] \in Session.variables

(* ---------------------------- C2 --------------------------------------- *)
\* C2: a run whose input has a syntax error creates no session, declares no
\* binding, emits no data object, defines no function, invokes nothing, and
\* ends with the errors reported and failure.
C2_SyntaxErrorNoTranslation ==
    input.errors # 0 =>
        /\ compiler = <<>>
        /\ value = NoRes
        /\ invoked = 0
        /\ stdout = <<>>
        /\ pc \in {"parse", "exit"}
        /\ pc = "exit" => status = "failure" /\ stderr = input.errors

C2_Witness == input.errors # 0 /\ pc = "exit" /\ status = "failure"

(* ---------------------------- C3 --------------------------------------- *)
\* C3: once a Lambda node has been translated (its function built and
\* NoValue returned), the module's registered functions contain that
\* function.
C3_LambdaRegistered ==
    \A p \in NodesOf("Lambda") :
        Returned(p) =>
            \E g \in Session.built :
                /\ \E i \in At("new_function", p) : T[i].f = g
                /\ g \in Session.functions

(* ---------------------------- C4 --------------------------------------- *)
\* C4: a string literal with an interpolation part returns what its first
\* interpolation part returned; no later part is translated and no data
\* object is declared or defined for the literal; only interpolation-free
\* literals reach the Constant Data Emitter.
C4_FirstInterpolationWins ==
    /\ \A p \in NodesOf("Str") :
          LET e == Node(Tree, p)
          IN  InterpolationParts(e) # {} =>
                LET k == FirstInterpolation(e)
                IN  /\ Entered(p) => Entered(Append(p, k))
                    /\ Exited(p) => /\ Exited(Append(p, k))
                                    /\ ResOf(p) = ResOf(Append(p, k))
                    /\ \A j \in InterpolationParts(e) :
                          j > k => ~Entered(Append(p, j))
                    /\ At("declare_data", p) = {}
                    /\ At("define_data", p) = {}
    /\ \A i \in DOMAIN T :
          T[i].ev \in {"declare_data", "define_data"} =>
              /\ T[i].path \in NodesOf("Str")
              /\ InterpolationParts(Node(Tree, T[i].path)) = {}

C4_Witness ==
    \E p \in NodesOf("Str") :
        LET e == Node(Tree, p)
        IN  /\ InterpolationParts(e) # {}
            /\ 1 < FirstInterpolation(e)
            /\ FirstInterpolation(e) < Len(e.parts)
            /\ Exited(p)
            /\ ResOf(p).tag = "val"

(* ---------------------------- C5 --------------------------------------- *)
\* C5: in a binary operation the left operand is translated completely
\* before the right one, the right one is translated whenever the left one
\* returned (a value or NoValue), and when either returned NoValue the
\* operation returns NoValue and emits no operator instruction.
C5_BothOperandsInOrder ==
    \A p \in NodesOf("BinOp") :
        LET l == Append(p, 1)
            r == Append(p, 2)
        IN  /\ Entered(r) => Exited(l) /\ ExitIdx(l) < EnterIdx(r)
            /\ Entered(p) => Entered(l)
            /\ Returned(l) => Entered(r)
            /\ (Returned(l) /\ Returned(r)
                    /\ (ResOf(l).tag = "none" \/ ResOf(r).tag = "none"))
                => /\ ResOf(p) = None
                   /\ At("ins", p) = {}

C5_Witness ==
    \E p \in NodesOf("BinOp") :
        /\ Node(Tree, p).op \in LogicOps
        /\ Returned(Append(p, 1))
        /\ ResOf(Append(p, 1)).tag = "none"
        /\ Returned(Append(p, 2))
        /\ ResOf(p) = None

(* ---------------------------- C6 --------------------------------------- *)
\* C6: when the translation of the top-level expression failed or returned
\* NoValue, "main" is never declared, defined or finalized, nothing is
\* invoked, no result is printed and the run ends with failure; "main" is
\* invoked at most once, and only once it is defined and finalized.
C6_FailureAbortsCompile ==
    /\ value.tag \in {"err", "panic", "none"} =>
          /\ MainFn \notin Session.functions
          /\ MainFn \notin Session.defined
          /\ MainFn \notin Session.finalized
          /\ invoked = 0
          /\ stdout = <<"node">>
          /\ pc \in {"close", "exit"}
          /\ pc = "exit" => status = "failure"
    /\ invoked <= 1
    /\ invoked = 1 =>
          /\ value.tag = "val"
          /\ MainFn \in Session.defined
          /\ MainFn \in Session.finalized

C6_Witness ==
    /\ Tree.k = "Lambda"
    /\ Returned(<<>>)
    /\ value = Err(NoReturnValue)
    /\ pc = "exit"
    /\ status = "failure"

(* ---------------------------- C7 --------------------------------------- *)
\* C7 as claimed: a binary operation with an operator outside the supported
\* set fails with UnsupportedOperator whenever both operands returned, be it
\* a value or NoValue.
C7_UnknownOperatorAlwaysFails ==
    \A p \in NodesOf("BinOp") :
        (/\ Node(Tree, p).op \notin SupportedOps
         /\ Returned(Append(p, 1))
         /\ Returned(Append(p, 2)))
            => ResOf(p) = Err(UnsupportedOperator)

\* C7 amended: a binary operation with an operator outside the supported set
\* fails with UnsupportedOperator when both operands returned a value; when
\* an operand returned NoValue it returns NoValue, as for any operator.
C7_UnknownOperatorFailsOnValues ==
    \A p \in NodesOf("BinOp") :
        (/\ Node(Tree, p).op \notin SupportedOps
         /\ Returned(Append(p, 1))
         /\ Returned(Append(p, 2)))
            => ResOf(p) = IF ResOf(Append(p, 1)).tag = "val"
                               /\ ResOf(Append(p, 2)).tag = "val"
                          THEN Err(UnsupportedOperator)
                          ELSE None

C7_Witness ==
    \E p \in NodesOf("BinOp") :
        /\ Node(Tree, p).op \notin SupportedOps
        /\ Returned(Append(p, 1))
        /\ Returned(Append(p, 2))
        /\ ResOf(Append(p, 1)).tag = "val"
        /\ ResOf(Append(p, 2)).tag = "val"
        /\ ResOf(p) = Err(UnsupportedOperator)

(* ---------------------------- C8 --------------------------------------- *)
\* the declare_variable calls of the let at p, and its translated values
Declares(p) == At("declare_variable", p)
ValueExits(p) ==
    {i \in DOMAIN T : \E b \in 1..Len(Node(Tree, p).binds) :
                          T[i].ev = "exit" /\ T[i].path = Append(p, b)}
ValueEnters(p) ==
    {i \in DOMAIN T : \E b \in 1..Len(Node(Tree, p).binds) :
                          T[i].ev = "enter" /\ T[i].path = Append(p, b)}
Upto(S, t) == {i \in S : i <= t}

\* C8: a let translates each binding's value before it declares and stores
\* that binding's name, binding after binding in source order, and the body
\* after all of them; an identifier resolves exactly when its name was
\* declared earlier in the session, else it fails with UnboundIdentifier; a
\* value that returned NoValue fails the let with MissingValue, its name
\* undeclared.
C8_LetValueBeforeDeclare ==
    /\ \A p \in NodesOf("LetIn") :
          LET e == Node(Tree, p)
              n == Len(e.binds)
          IN  /\ \A t \in Declares(p) :
                    LET b == Cardinality(Upto(Declares(p), t))
                    IN  /\ Cardinality(Upto(ValueExits(p), t)) = b
                        /\ Cardinality(Upto(ValueEnters(p), t)) = b
                        /\ T[t].s = e.binds[b].key
                        /\ ResOf(Append(p, b)).tag = "val"
                        /\ T[t + 1].ev = "def_var"
                        /\ T[t + 1].a = T[t].a
              /\ \A b \in 1..n :
                    Entered(Append(p, b)) =>
                        Cardinality(Upto(At("def_var", p), EnterIdx(Append(p, b)))) = b - 1
              /\ \A b \in 1..n :
                    (Returned(Append(p, b)) /\ ResOf(Append(p, b)).tag = "none")
                        => /\ ResOf(p) = Err(MissingValue)
                           /\ Cardinality(Declares(p)) = b - 1
              /\ Entered(Append(p, n + 1)) =>
                    Cardinality(Upto(At("def_var", p), EnterIdx(Append(p, n + 1)))) = n
    /\ \A q \in NodesOf("Ident") :
          Exited(q) =>
              IF \E j \in 1..EnterIdx(q) :
                     T[j].ev = "declare_variable" /\ T[j].s = Node(Tree, q).name
              THEN ResOf(q) # Err(UnboundIdentifier)
              ELSE ResOf(q) = Err(UnboundIdentifier)

\* a binding that names itself or a later binding of the same let
C8_Witness ==
    \E p \in NodesOf("LetIn") :
        LET e == Node(Tree, p)
        IN  \E b \in 1..Len(e.binds) :
                /\ e.binds[b].value.k = "Ident"
                /\ \E c \in b..Len(e.binds) : e.binds[c].key = e.binds[b].value.name
                /\ Exited(Append(p, b))
                /\ ResOf(Append(p, b)) = Err(UnboundIdentifier)
                /\ ResOf(p) = Err(UnboundIdentifier)

(* ---------------------------- C9 --------------------------------------- *)
\* the string literals whose translation returned a value
EmittedLiterals ==
    {p \in NodesOf("Str") :
        InterpolationParts(Node(Tree, p)) = {} /\ Returned(p)}

C10_SlotsRegisteredWithFunction ==
    \A i \in DOMAIN T :
        T[i].ev \in {"use_var", "def_var"} =>
            \E j \in 1..i :
                /\ T[j].ev = "declare_var"
                /\ T[j].f = T[i].f
                /\ T[j].a = T[i].a

====
